---- MODULE Spec2Model ----
(***************************************************************************)
(* Leitner flashcard bookkeeping of PS1/src/algorithm.ts: toBucketSets,    *)
(* getBucketRange, practice, update and computeProgress, driven by a       *)
(* session that holds the sparse bucket mapping and calls them.            *)
(*                                                                         *)
(* A Map<number, Set<Flashcard>> is a record [entries |-> seq] whose       *)
(* sequence lists the [bucket, cards] entries in insertion order (the      *)
(* iteration order of a JavaScript Map).  An Array<Set<Flashcard>> is a    *)
(* function on 0..length-1.  Flashcards are compared by identity, so a     *)
(* card is a number of 1..MaxCards.                                        *)
(***************************************************************************)
EXTENDS Integers, Sequences, FiniteSets, TLC

VARIABLES buckets, last, easyRun

vars == <<buckets, last, easyRun>>

\* ---- bounds -------------------------------------------------------------
MaxCards == 2
MaxBucket == 3
MaxKeys == 2
MaxDay == 2
MaxHistory == 2
MaxAnswerLen == 4
MaxHintLen == 2

Cards == 1..MaxCards
Difficulties == {"Wrong", "Hard", "Easy"}
Undefined == [undefined |-> TRUE]

\* ---- Map and Math helpers -----------------------------------------------
MapKeys(m) == {m.entries[i].bucket : i \in DOMAIN m.entries}

MapHas(m, k) == k \in MapKeys(m)

MapGet(m, k) == m.entries[CHOOSE i \in DOMAIN m.entries : m.entries[i].bucket = k].cards

MathMax(S) == CHOOSE x \in S : \A y \in S : y <= x

MathMin(S) == CHOOSE x \in S : \A y \in S : x <= y

\* ---- completions --------------------------------------------------------
\* A call either returns a value or throws (a TypeError on reading a
\* property of undefined).
Return(v) == [threw |-> FALSE, value |-> v]

Throw == [threw |-> TRUE]

\* ---- update (algorithm.ts 71-123) ---------------------------------------
\* The caller's Map laid out in a heap of Set objects: entry i refers to
\* heap cell i.
Alloc(m) ==
  [heap |-> [i \in DOMAIN m.entries |-> m.entries[i].cards],
   map  |-> [i \in DOMAIN m.entries |-> [bucket |-> m.entries[i].bucket, ref |-> i]]]

\* A plausible slip: a bucket left with no card is deleted from the Map.
DerefNonEmpty(heap, map) ==
  LET kept == SelectSeq(map, LAMBDA e : heap[e.ref] # {})
  IN  [entries |-> [i \in DOMAIN kept |->
                     [bucket |-> kept[i].bucket, cards |-> heap[kept[i].ref]]]]

\* The Map value a list of [bucket, ref] entries denotes in a heap.
Deref(heap, map) ==
  [entries |-> [i \in DOMAIN map |-> [bucket |-> map[i].bucket, cards |-> heap[map[i].ref]]]]

\* A plausible slip: new Map(buckets), which shares the Set objects.
CopyBucketsShallow(heap, map) == [heap |-> heap, map |-> map]

\* new Map(entries.map(([bucket, cards]) => [bucket, new Set(cards)]))
CopyBuckets(heap, map) ==
  [heap |-> heap \o [i \in DOMAIN map |-> heap[map[i].ref]],
   map  |-> [i \in DOMAIN map |-> [bucket |-> map[i].bucket, ref |-> Len(heap) + i]]]

\* A plausible slip: the loop never finds the card, so nothing is deleted.
FindCardNever(heap, map, card) == 0

\* The for-loop with break: the first entry, in iteration order, whose set
\* has the card; 0 when no set has it.
FindCard(heap, map, card) ==
  LET hits == {i \in DOMAIN map : card \in heap[map[i].ref]}
  IN  IF hits = {} THEN 0 ELSE MathMin(hits)

\* A plausible slip: Wrong demotes by one bucket instead of resetting to 0.
NewBucketDemote(currentBucket, difficulty) ==
  CASE difficulty = "Wrong" -> IF currentBucket > 0 THEN currentBucket - 1 ELSE 0
    [] difficulty = "Hard"  -> currentBucket
    [] difficulty = "Easy"  -> currentBucket + 1
    [] OTHER                -> currentBucket

\* A plausible slip: Hard moves the card down one bucket.
NewBucketHardDown(currentBucket, difficulty) ==
  CASE difficulty = "Wrong" -> 0
    [] difficulty = "Hard"  -> MathMax({0, currentBucket - 1})
    [] difficulty = "Easy"  -> currentBucket + 1
    [] OTHER                -> currentBucket

\* The switch on difficulty.
NewBucket(currentBucket, difficulty) ==
  CASE difficulty = "Wrong" -> 0
    [] difficulty = "Hard"  -> currentBucket
    [] difficulty = "Easy"  -> currentBucket + 1
    [] OTHER                -> currentBucket

\* update returns the new Map (value); input is the caller's Map as it reads
\* after the call.  buckets.entries() on an absent mapping throws a TypeError.
update(m, card, difficulty) ==
  IF m = Undefined THEN [threw |-> TRUE, input |-> m] ELSE
  LET a == Alloc(m)
      updatedBuckets == CopyBuckets(a.heap, a.map)
      found == FindCard(updatedBuckets.heap, updatedBuckets.map, card)
      heap1 == IF found = 0 THEN updatedBuckets.heap
               ELSE [updatedBuckets.heap EXCEPT ![updatedBuckets.map[found].ref] = @ \ {card}]
      currentBucket == IF found = 0 THEN 0 ELSE updatedBuckets.map[found].bucket
      newBucket == NewBucket(currentBucket, difficulty)
      has == \E i \in DOMAIN updatedBuckets.map : updatedBuckets.map[i].bucket = newBucket
      heap2 == IF has THEN heap1 ELSE Append(heap1, {})
      map2 == IF has THEN updatedBuckets.map
              ELSE Append(updatedBuckets.map, [bucket |-> newBucket, ref |-> Len(heap1) + 1])
      target == map2[CHOOSE i \in DOMAIN map2 : map2[i].bucket = newBucket].ref
      heap3 == [heap2 EXCEPT ![target] = @ \cup {card}]
  IN  [threw |-> FALSE, value |-> Deref(heap3, map2), input |-> Deref(heap3, a.map)]

ArrayLength(a) == Cardinality(DOMAIN a)

\* ---- toBucketSets (algorithm.ts 6-17) -----------------------------------
\* A plausible slip: the largest key is taken among the non-empty buckets.
toBucketSetsNonEmptyMax(m) ==
  IF m = Undefined THEN Return(<<>>)
  ELSE LET keys == {k \in MapKeys(m) : MapGet(m, k) # {}}
       IN  IF keys = {} THEN Return(<<>>)
           ELSE Return([index \in 0..MathMax(keys) |->
                          IF MapHas(m, index) THEN MapGet(m, index) ELSE {}])

\* A plausible slip: Array.from(buckets.values()), which drops the gaps.
toBucketSetsCompact(m) ==
  IF m = Undefined THEN Return(<<>>)
  ELSE Return([index \in 0..(Len(m.entries) - 1) |-> m.entries[index + 1].cards])

\* A Set object is truthy also when empty, so bucketCards is falsy exactly
\* when the key is absent.
toBucketSets(m) ==
  IF m = Undefined THEN Return(<<>>)
  ELSE IF Len(m.entries) = 0 THEN Return(<<>>)
  ELSE LET maxBucketIndex == MathMax(MapKeys(m))
       IN  Return([index \in 0..maxBucketIndex |->
                     IF MapHas(m, index) THEN MapGet(m, index) ELSE {}])

\* ---- getBucketRange (algorithm.ts 22-42) --------------------------------
\* A plausible slip: the size test is left out of the reducer.
getBucketRangeAnySet(B) ==
  LET validBuckets == DOMAIN B
  IN  IF Cardinality(validBuckets) = 0 THEN Undefined
      ELSE [minBucket |-> MathMin(validBuckets), maxBucket |-> MathMax(validBuckets)]

\* validBuckets holds the indices the reducer pushed; only its length,
\* minimum and maximum are read.
getBucketRange(B) ==
  LET validBuckets == {index \in DOMAIN B : Cardinality(B[index]) > 0}
  IN  IF Cardinality(validBuckets) = 0 THEN Undefined
      ELSE [minBucket |-> MathMin(validBuckets), maxBucket |-> MathMax(validBuckets)]

\* ---- practice (algorithm.ts 47-66) --------------------------------------
\* The % of JavaScript on integers: the remainder takes the sign of the
\* dividend (and -0 === 0).
JsRem(a, b) == IF a >= 0 THEN a % b ELSE -((-a) % b)

\* A plausible slip: bucket i is taken to be due every (i + 1) days.
practicePeriodPlusOne(B, day) ==
  LET bucket0 == IF 0 \in DOMAIN B THEN B[0] ELSE {}
      due == {index \in DOMAIN B :
                index > 0 /\ Cardinality(B[index]) > 0 /\ JsRem(day, index + 1) = 0}
  IN  bucket0 \cup UNION {B[index] : index \in due}

\* A plausible slip: bucket 0 is left to the divisibility loop, where
\* day % 0 is NaN and never equals 0.
practiceModuloOnly(B, day) ==
  LET due == {index \in DOMAIN B :
                index > 0 /\ Cardinality(B[index]) > 0 /\ JsRem(day, index) = 0}
  IN  UNION {B[index] : index \in due}

practice(B, day) ==
  LET bucket0 == IF 0 \in DOMAIN B THEN B[0] ELSE {}
      due == {index \in DOMAIN B :
                index > 0 /\ Cardinality(B[index]) > 0 /\ JsRem(day, index) = 0}
  IN  bucket0 \cup UNION {B[index] : index \in due}

\* ---- computeProgress (algorithm.ts 159-209) -----------------------------
MasteryThreshold == 3

\* A quotient a / b of two integers, kept exact as a fraction; den = 0 is
\* the NaN or Infinity of a division by zero.
Div(a, b) == [num |-> a, den |-> b]

Zero == [num |-> 0, den |-> 1]

\* Map.set: replace the value of an existing key, else append an entry.
MapSet(m, k, v) ==
  IF \E i \in DOMAIN m.entries : m.entries[i].bucket = k
  THEN [entries |-> [i \in DOMAIN m.entries |->
                       IF m.entries[i].bucket = k THEN [bucket |-> k, count |-> v]
                       ELSE m.entries[i]]]
  ELSE [entries |-> Append(m.entries, [bucket |-> k, count |-> v])]

\* The for-of loop over buckets.entries(), from entry i on.
RECURSIVE CountLoop(_, _, _)
CountLoop(entries, i, acc) ==
  IF i > Len(entries) THEN acc
  ELSE LET bucket == entries[i].bucket
           count == Cardinality(entries[i].cards)
       IN  CountLoop(entries, i + 1,
             [cardsPerBucket |-> MapSet(acc.cardsPerBucket, bucket, count),
              totalCards |-> acc.totalCards + count,
              bucketSum |-> acc.bucketSum + bucket * count])

\* A plausible slip: mastery is taken to start above bucket 3.
RECURSIVE MasteredCardsAbove(_, _)
MasteredCardsAbove(entries, i) ==
  IF i > Len(entries) THEN 0
  ELSE (IF entries[i].bucket > MasteryThreshold THEN entries[i].count ELSE 0)
       + MasteredCardsAbove(entries, i + 1)

\* The reduce over cardsPerBucket.entries(), from entry i on.
RECURSIVE MasteredCards(_, _)
MasteredCards(entries, i) ==
  IF i > Len(entries) THEN 0
  ELSE (IF entries[i].bucket >= MasteryThreshold THEN entries[i].count ELSE 0)
       + MasteredCards(entries, i + 1)

\* A plausible slip: the quotient is taken without the totalCards > 0 test.
AverageBucketUnguarded(bucketSum, totalCards) == Div(bucketSum, totalCards)

AverageBucket(bucketSum, totalCards) ==
  IF totalCards > 0 THEN Div(bucketSum, totalCards) ELSE Zero

\* A plausible slip: the Wrong entries are the ones counted.
SuccessRateOfWrong(history) ==
  LET successCount == Cardinality({i \in DOMAIN history : history[i].difficulty = "Wrong"})
  IN  IF Len(history) > 0 THEN Div(successCount * 100, Len(history)) ELSE Zero

\* (successCount / history.length) * 100
SuccessRate(history) ==
  LET successCount == Cardinality({i \in DOMAIN history : history[i].difficulty # "Wrong"})
  IN  IF Len(history) > 0 THEN Div(successCount * 100, Len(history)) ELSE Zero

\* A plausible slip: an absent mapping is read as an empty one
\* (buckets?.entries() ?? []).
computeProgressOptional(m, history) ==
  LET counted == CountLoop(IF m = Undefined THEN <<>> ELSE m.entries, 1,
                   [cardsPerBucket |-> [entries |-> <<>>], totalCards |-> 0, bucketSum |-> 0])
  IN  Return([totalCards |-> counted.totalCards,
              cardsPerBucket |-> counted.cardsPerBucket,
              averageBucket |-> AverageBucket(counted.bucketSum, counted.totalCards),
              masteredCards |-> MasteredCards(counted.cardsPerBucket.entries, 1),
              successRate |-> SuccessRate(history)])

\* buckets.entries() on an absent mapping throws a TypeError.
computeProgress(m, history) ==
  IF m = Undefined THEN Throw
  ELSE LET counted == CountLoop(m.entries, 1,
             [cardsPerBucket |-> [entries |-> <<>>], totalCards |-> 0, bucketSum |-> 0])
       IN  Return([totalCards |-> counted.totalCards,
                   cardsPerBucket |-> counted.cardsPerBucket,
                   averageBucket |-> AverageBucket(counted.bucketSum, counted.totalCards),
                   masteredCards |-> MasteredCards(counted.cardsPerBucket.entries, 1),
                   successRate |-> SuccessRate(history)])

\* ---- getHint (algorithm.ts 128-154) --------------------------------------
\* A string is the sequence of its characters.  Letters are the characters
\* of [a-zA-Z]; "1" stands for the other visible characters and " " for the
\* white space of \s and trim().
Letters == {"a", "B"}

Chars == Letters \cup {"1", " "}

IsAlpha(c) == c \in Letters

IsSpace(c) == c = " "

\* A string field that is undefined or null.
NoString == <<"undefined">>

\* The truthiness of a string field: present and not "".
Truthy(str) == str # NoString /\ str # <<>>

RECURSIVE TrimStart(_)
TrimStart(str) ==
  IF str # <<>> /\ IsSpace(Head(str)) THEN TrimStart(Tail(str)) ELSE str

RECURSIVE TrimEnd(_)
TrimEnd(str) ==
  IF str # <<>> /\ IsSpace(str[Len(str)])
  THEN TrimEnd(SubSeq(str, 1, Len(str) - 1)) ELSE str

\* String.prototype.trim
Trim(str) == TrimEnd(TrimStart(str))

\* split(/\s+/) from character i on: a run of white space ends the current
\* word, also the empty word before a leading run; the word after the last
\* run, also an empty one, ends the list.
RECURSIVE SplitLoop(_, _, _, _)
SplitLoop(str, i, word, words) ==
  IF i > Len(str) THEN Append(words, word)
  ELSE IF IsSpace(str[i])
       THEN IF i > 1 /\ IsSpace(str[i - 1])
            THEN SplitLoop(str, i + 1, word, words)
            ELSE SplitLoop(str, i + 1, <<>>, Append(words, word))
       ELSE SplitLoop(str, i + 1, Append(word, str[i]), words)

Split(str) == SplitLoop(str, 1, <<>>, <<>>)

\* word.replace(/^[^a-zA-Z]*/, '')
RECURSIVE StripLeading(_)
StripLeading(word) ==
  IF word # <<>> /\ ~IsAlpha(Head(word)) THEN StripLeading(Tail(word)) ELSE word

\* '_'.repeat(n)
Repeat(c, n) == [i \in 1..n |-> c]

\* A plausible slip: the underscores are counted on the stripped word.
MaskWordStripped(word) ==
  IF Len(word) = 0 THEN <<>>
  ELSE LET stripped == StripLeading(word)
           firstLetter == IF stripped = <<>> THEN <<>> ELSE <<stripped[1]>>
       IN  firstLetter \o
             (IF firstLetter # <<>>
              THEN Repeat("_", IF Len(stripped) - 1 > 0 THEN Len(stripped) - 1 ELSE 0)
              ELSE <<>>)

\* The callback of words.map.
MaskWord(word) ==
  IF Len(word) = 0 THEN <<>>
  ELSE LET stripped == StripLeading(word)
           firstLetter == IF stripped = <<>> THEN <<>> ELSE <<stripped[1]>>
       IN  firstLetter \o
             (IF firstLetter # <<>>
              THEN Repeat("_", IF Len(word) - 1 > 0 THEN Len(word) - 1 ELSE 0)
              ELSE <<>>)

\* hintWords.join(" ") from word i on.
RECURSIVE Join(_, _)
Join(words, i) ==
  IF i > Len(words) THEN <<>>
  ELSE IF i = Len(words) THEN words[i]
  ELSE words[i] \o <<" ">> \o Join(words, i + 1)

getHint(card) ==
  IF Truthy(card.hint) /\ Trim(card.hint) # <<>> THEN card.hint
  ELSE IF ~Truthy(card.back) THEN <<>>
  ELSE LET words == Split(card.back)
           hintWords == [i \in DOMAIN words |-> MaskWord(words[i])]
       IN  Join(hintWords, 1)

\* ---- inputs -------------------------------------------------------------
\* Maps of at most MaxKeys entries with keys in 0..MaxBucket, built as the
\* tests build them: one set() call per key, in ascending order of the keys.
SparseMappings ==
  {[entries |-> e] : e \in UNION {
     {s \in [1..n -> [bucket : 0..MaxBucket, cards : SUBSET Cards]] :
        \A i, j \in 1..n : i < j => s[i].bucket < s[j].bucket} : n \in 0..MaxKeys}}

\* The buckets of m that hold card.
BucketsOf(m, card) == {m.entries[i].bucket : i \in {j \in DOMAIN m.entries : card \in m.entries[j].cards}}

\* The data-model invariant: a card is in at most one bucket.
AtMostOneBucket(m) == \A card \in Cards : Cardinality(BucketsOf(m, card)) <= 1

NoCall == [op |-> "none"]

\* easyRun records, for a card the session started without, the outcomes
\* handed to update for it: the number of Easy since the last Wrong, or
\* Fresh before its first update.  A card the session started with in some
\* bucket is Untracked.
Untracked == -2

Fresh == -1

NoRuns == [card \in Cards |-> Untracked]

RunAfter(run, difficulty) ==
  CASE run = Untracked      -> Untracked
    [] difficulty = "Wrong" -> 0
    [] difficulty = "Easy"  -> (IF run = Fresh THEN 0 ELSE run) + 1
    [] OTHER                -> IF run = Fresh THEN 0 ELSE run

Init ==
  /\ buckets \in {m \in SparseMappings : AtMostOneBucket(m)}
  /\ last = NoCall
  /\ easyRun = NoRuns

\* A session that starts with every card in no bucket, and follows them all.
InitFresh ==
  /\ buckets \in {m \in SparseMappings : \A card \in Cards : BucketsOf(m, card) = {}}
  /\ last = NoCall
  /\ easyRun = [card \in Cards |-> Fresh]

\* Any mapping, also one with a card in several buckets, or none at all.
InitAny ==
  /\ buckets \in SparseMappings \cup {Undefined}
  /\ last = NoCall
  /\ easyRun = NoRuns

UpdateRecord(m, card, difficulty, r) ==
  [op |-> "update", buckets |-> m, card |-> card, difficulty |-> difficulty,
   bucketsAfter |-> r.input,
   ret |-> IF r.threw THEN Throw ELSE Return(r.value)]

\* The session replaces its mapping by update's result.
Update ==
  /\ last = NoCall
  /\ \E card \in Cards, difficulty \in Difficulties :
       LET r == update(buckets, card, difficulty)
       IN  /\ ~r.threw
           /\ \A k \in MapKeys(r.value) : k <= MaxBucket
           /\ buckets' = r.value
           /\ last' = UpdateRecord(buckets, card, difficulty, r)
           /\ easyRun' = [easyRun EXCEPT ![card] = RunAfter(@, difficulty)]

\* One call of update on an arbitrary mapping, its result only inspected.
UpdateCall ==
  /\ last = NoCall
  /\ \E card \in Cards, difficulty \in Difficulties :
       last' = UpdateRecord(buckets, card, difficulty, update(buckets, card, difficulty))
  /\ UNCHANGED <<buckets, easyRun>>

Days == (-MaxDay)..MaxDay

\* Review histories of at most MaxHistory entries.  The timestamp of an
\* entry is its position; its card, which computeProgress never reads, is
\* left out.
Histories ==
  UNION {{[i \in 1..n |-> [timestamp |-> i, difficulty |-> ds[i]]] :
            ds \in [1..n -> Difficulties]} : n \in 0..MaxHistory}

ToBucketSets ==
  /\ last = NoCall
  /\ last' = [op |-> "toBucketSets", buckets |-> buckets, ret |-> toBucketSets(buckets)]
  /\ UNCHANGED <<buckets, easyRun>>

\* The dense view is recomputed from the mapping before each query.
GetBucketRange ==
  /\ last = NoCall
  /\ LET B == toBucketSets(buckets).value
     IN  last' = [op |-> "getBucketRange", buckets |-> B, ret |-> getBucketRange(B)]
  /\ UNCHANGED <<buckets, easyRun>>

Practice ==
  /\ last = NoCall
  /\ \E day \in Days :
       LET B == toBucketSets(buckets).value
       IN  last' = [op |-> "practice", buckets |-> B, day |-> day, ret |-> practice(B, day)]
  /\ UNCHANGED <<buckets, easyRun>>

ComputeProgress ==
  /\ last = NoCall
  /\ \E history \in Histories :
       last' = [op |-> "computeProgress", buckets |-> buckets, history |-> history,
                ret |-> computeProgress(buckets, history)]
  /\ UNCHANGED <<buckets, easyRun>>

\* The strings of at most n characters.
Strings(n) == UNION {[1..k -> Chars] : k \in 0..n}

\* The cards getHint reads: an answer and an authored hint, each possibly
\* absent.
HintCards ==
  [back : Strings(MaxAnswerLen) \cup {NoString}, hint : Strings(MaxHintLen) \cup {NoString}]

InitHint ==
  /\ buckets = [entries |-> <<>>]
  /\ last = NoCall
  /\ easyRun = NoRuns

GetHint ==
  /\ last = NoCall
  /\ \E card \in HintCards :
       last' = [op |-> "getHint", card |-> card, ret |-> getHint(card)]
  /\ UNCHANGED <<buckets, easyRun>>

\* The session has read the result of its last call and goes on.
Continue ==
  /\ last # NoCall
  /\ last' = NoCall
  /\ UNCHANGED <<buckets, easyRun>>

\* A session: it keeps the mapping update returns and queries its dense
\* view.
Next ==
  \/ Update
  \/ ToBucketSets
  \/ GetBucketRange
  \/ Practice
  \/ Continue

\* Single calls of each operation on an arbitrary mapping.
NextAny ==
  \/ UpdateCall
  \/ ToBucketSets
  \/ GetBucketRange
  \/ Practice
  \/ ComputeProgress
  \/ Continue

\* Single calls of getHint.
NextHint ==
  \/ GetHint
  \/ Continue

\* A session that updates its cards and computes its progress.
NextFresh ==
  \/ Update
  \/ ComputeProgress
  \/ Continue

Spec == Init /\ [][Next]_vars

SpecFresh == InitFresh /\ [][NextFresh]_vars

SpecHint == InitHint /\ [][NextHint]_vars

SpecAny == InitAny /\ [][NextAny]_vars

\* ---- properties ---------------------------------------------------------
InBucket(m, card, k) ==
  \E i \in DOMAIN m.entries : m.entries[i].bucket = k /\ card \in m.entries[i].cards

\* C1: when each card was in at most one bucket, update leaves the card in
\* bucket 0 for Wrong, in its previous bucket p for Hard and in bucket p + 1
\* for Easy, where p is 0 for a card that was in no bucket.
C1_UpdatePlacesCard ==
  (last.op = "update" /\ last.buckets # Undefined /\ AtMostOneBucket(last.buckets)) =>
    LET before == BucketsOf(last.buckets, last.card)
        p == IF before = {} THEN 0 ELSE CHOOSE b \in before : TRUE
    IN  /\ ~last.ret.threw
        /\ last.difficulty = "Wrong" => InBucket(last.ret.value, last.card, 0)
        /\ last.difficulty = "Hard"  => InBucket(last.ret.value, last.card, p)
        /\ last.difficulty = "Easy"  => InBucket(last.ret.value, last.card, p + 1)

C1_Witness ==
  /\ last.op = "update"
  /\ last.difficulty = "Wrong"
  /\ BucketsOf(last.buckets, last.card) = {2}
  /\ InBucket(last.ret.value, last.card, 0)

\* C2: from a mapping with every card in at most one bucket, every chain of
\* update calls keeps every card in at most one bucket, and the card just
\* updated is in exactly one.
C2_AtMostOneBucket ==
  /\ AtMostOneBucket(buckets)
  /\ last.op = "update" =>
       /\ buckets = last.ret.value
       /\ Cardinality(BucketsOf(last.ret.value, last.card)) = 1

C2_Witness ==
  /\ last.op = "update"
  /\ BucketsOf(last.buckets, last.card) = {1}
  /\ BucketsOf(last.ret.value, last.card) = {2}
  /\ \E other \in Cards \ {last.card} : BucketsOf(last.ret.value, other) = {1}

\* C3: update changes only the placement of its card: any other card is in
\* a bucket of the result exactly when it is in that bucket of the input,
\* and the input mapping reads the same after the call as before it.
C3_UpdateFrame ==
  (last.op = "update" /\ last.buckets # Undefined) =>
    /\ ~last.ret.threw
    /\ \A other \in Cards \ {last.card} : \A k \in 0..(MaxBucket + 1) :
         InBucket(last.ret.value, other, k) <=> InBucket(last.buckets, other, k)
    /\ last.bucketsAfter = last.buckets

C3_Witness ==
  /\ last.op = "update"
  /\ last.buckets # Undefined
  /\ last.ret.value # last.buckets
  /\ \E other \in Cards \ {last.card} : \E k \in 0..MaxBucket :
       /\ InBucket(last.buckets, other, k)
       /\ InBucket(last.buckets, last.card, k)
       /\ ~InBucket(last.ret.value, last.card, k)

\* day = k * i for some integer k.
Divides(i, day) == \E k \in (-MaxDay - 1)..(MaxDay + 1) : day = k * i

\* C4: practice returns exactly the cards of bucket 0 together with the
\* cards of every bucket i > 0 whose index divides day, for negative, zero
\* and positive days.
C4_PracticeSelection ==
  last.op = "practice" =>
    \A card \in Cards :
      card \in last.ret <=>
        \E i \in DOMAIN last.buckets :
          /\ card \in last.buckets[i]
          /\ (i = 0 \/ Divides(i, last.day))

C4_Witness ==
  /\ last.op = "practice"
  /\ last.day < 0
  /\ \E i, j \in DOMAIN last.buckets :
       /\ i > 1 /\ j > 1
       /\ last.buckets[i] # {} /\ last.buckets[i] \subseteq last.ret
       /\ last.buckets[j] # {} /\ last.buckets[j] \cap last.ret = {}

\* C5: toBucketSets of a mapping has length 0 exactly when the mapping has
\* no key, and otherwise length (largest key) + 1, also when the set at the
\* largest key is empty.
C5_DenseLength ==
  (last.op = "toBucketSets" /\ last.buckets # Undefined) =>
    LET n == ArrayLength(last.ret.value)
        keys == MapKeys(last.buckets)
    IN  /\ ~last.ret.threw
        /\ DOMAIN last.ret.value = 0..(n - 1)
        /\ n = 0 <=> keys = {}
        /\ keys # {} => ((n - 1) \in keys /\ \A k \in keys : k <= n - 1)

C5_Witness ==
  /\ last.op = "toBucketSets"
  /\ last.buckets # Undefined
  /\ ArrayLength(last.ret.value) = 4
  /\ \E i \in DOMAIN last.buckets.entries :
       last.buckets.entries[i].bucket = 3 /\ last.buckets.entries[i].cards = {}

\* C6: index i of toBucketSets, for i up to the largest key, holds exactly
\* the cards of bucket i of the mapping, and the empty set when i is not a
\* key.
C6_DenseContents ==
  (last.op = "toBucketSets" /\ last.buckets # Undefined) =>
    \A i \in 0..MaxBucket :
      (\E k \in MapKeys(last.buckets) : i <= k) =>
        /\ i \in DOMAIN last.ret.value
        /\ \A card \in Cards :
             card \in last.ret.value[i] <=> InBucket(last.buckets, card, i)

C6_Witness ==
  /\ last.op = "toBucketSets"
  /\ last.buckets # Undefined
  /\ MapKeys(last.buckets) = {1, 3}
  /\ last.ret.value[1] # {}
  /\ last.ret.value[2] = {}
  /\ last.ret.value[3] # {}

\* C7: getBucketRange is undefined when no set of the sequence has a card,
\* and otherwise gives the smallest and the largest index of a non-empty
\* set (the same index twice when only one set is non-empty).
C7_BucketRange ==
  last.op = "getBucketRange" =>
    LET nonEmpty == {i \in DOMAIN last.buckets : last.buckets[i] # {}}
    IN  /\ nonEmpty = {} => last.ret = Undefined
        /\ nonEmpty # {} =>
             /\ last.ret # Undefined
             /\ last.ret.minBucket \in nonEmpty
             /\ last.ret.maxBucket \in nonEmpty
             /\ \A i \in nonEmpty : last.ret.minBucket <= i /\ i <= last.ret.maxBucket

C7_Witness ==
  /\ last.op = "getBucketRange"
  /\ ArrayLength(last.buckets) = 4
  /\ {i \in DOMAIN last.buckets : last.buckets[i] # {}} = {2}
  /\ last.ret = [minBucket |-> 2, maxBucket |-> 2]

\* The (bucket, card) memberships of a mapping.
Memberships(m) ==
  {p \in MapKeys(m) \X Cards : InBucket(m, p[2], p[1])}

\* C8: computeProgress gives cardsPerBucket the keys of the mapping, each
\* with the size of its set; totalCards is the sum of the sizes and
\* masteredCards the sum of the sizes of the buckets numbered 3 or more.
C8_ProgressCounts ==
  (last.op = "computeProgress" /\ last.buckets # Undefined) =>
    LET r == last.ret.value
        counts == r.cardsPerBucket.entries
    IN  /\ ~last.ret.threw
        /\ {counts[i].bucket : i \in DOMAIN counts} = MapKeys(last.buckets)
        /\ \A i, j \in DOMAIN counts : counts[i].bucket = counts[j].bucket => i = j
        /\ \A i \in DOMAIN counts :
             counts[i].count =
               Cardinality({p \in Memberships(last.buckets) : p[1] = counts[i].bucket})
        /\ r.totalCards = Cardinality(Memberships(last.buckets))
        /\ r.masteredCards = Cardinality({p \in Memberships(last.buckets) : p[1] >= 3})
        /\ 0 <= r.masteredCards /\ r.masteredCards <= r.totalCards

C8_Witness ==
  /\ last.op = "computeProgress"
  /\ last.buckets # Undefined
  /\ MapKeys(last.buckets) = {2, 3}
  /\ last.ret.value.totalCards = 2
  /\ last.ret.value.masteredCards = 1

\* The sum over the buckets of (bucket number * bucket size): one triple per
\* membership and unit of its bucket number.
BucketSum(m) ==
  Cardinality({t \in Memberships(m) \X (1..(MaxBucket + 1)) : t[2] <= t[1][1]})

EmptyProgress(ret) ==
  /\ ~ret.threw
  /\ ret.value.totalCards = 0
  /\ ret.value.cardsPerBucket.entries = <<>>
  /\ ret.value.averageBucket.num = 0 /\ ret.value.averageBucket.den # 0
  /\ ret.value.masteredCards = 0

EmptyMap == [entries |-> <<>>]

\* C10 as stated: an empty or an absent mapping gives the empty sequence
\* from toBucketSets and all-zero counts from computeProgress, and neither
\* call throws.
C10_AbsentIsEmpty ==
  /\ (last.op = "toBucketSets" /\ last.buckets \in {EmptyMap, Undefined}) =>
       (~last.ret.threw /\ last.ret.value = <<>>)
  /\ (last.op = "computeProgress" /\ last.buckets \in {EmptyMap, Undefined}) =>
       EmptyProgress(last.ret)

\* C10, amended: an empty mapping gives the empty sequence from toBucketSets
\* and all-zero counts from computeProgress without an error; an absent
\* mapping gives the empty sequence from toBucketSets, and makes
\* computeProgress throw.
C10_AbsentThrowsInProgress ==
  /\ (last.op = "toBucketSets" /\ last.buckets \in {EmptyMap, Undefined}) =>
       (~last.ret.threw /\ last.ret.value = <<>>)
  /\ (last.op = "computeProgress" /\ last.buckets = EmptyMap) =>
       EmptyProgress(last.ret)
  /\ (last.op = "computeProgress" /\ last.buckets = Undefined) =>
       last.ret.threw

C10_Witness ==
  /\ last.op = "computeProgress"
  /\ last.buckets = Undefined
  /\ last.history # <<>>
  /\ last.ret.threw

\* The characters of the word of str that position i lies in.
WordOf(str, i) ==
  {j \in DOMAIN str :
     \A k \in DOMAIN str : ((j <= k /\ k <= i) \/ (i <= k /\ k <= j)) => ~IsSpace(str[k])}

\* What position i of the answer contributes to the derived hint: a run of
\* white space gives one space, at its first character; a word with a letter
\* gives its first letter at its first character and an underscore at each
\* other one; a word without a letter gives nothing.
Masked(str, i) ==
  LET letters == {j \in WordOf(str, i) : IsAlpha(str[j])}
  IN  IF IsSpace(str[i])
      THEN (IF i = 1 \/ ~IsSpace(str[i - 1]) THEN <<" ">> ELSE <<>>)
      ELSE IF letters = {} THEN <<>>
      ELSE IF \A j \in WordOf(str, i) : i <= j
           THEN <<str[CHOOSE j \in letters : \A k \in letters : j <= k]>>
           ELSE <<"_">>

RECURSIVE MaskedFrom(_, _)
MaskedFrom(str, i) ==
  IF i > Len(str) THEN <<>> ELSE Masked(str, i) \o MaskedFrom(str, i + 1)

\* C11: getHint returns the authored hint as it is when the hint has a
\* character that is not white space; otherwise the empty string when the
\* answer is empty or absent; otherwise the answer with every run of white
\* space turned into one space and every word into its first letter followed
\* by (length of the word - 1) underscores, or into nothing when the word
\* has no letter.
C11_HintMasking ==
  last.op = "getHint" =>
    LET hint == last.card.hint
        back == last.card.back
    IN  IF hint # NoString /\ \E i \in DOMAIN hint : ~IsSpace(hint[i])
        THEN last.ret = hint
        ELSE IF back = NoString \/ back = <<>>
        THEN last.ret = <<>>
        ELSE last.ret = MaskedFrom(back, 1)

C11_Witness ==
  /\ last.op = "getHint"
  /\ last.card.hint = <<" ">>
  /\ last.card.back = <<"1", "a", " ", "B">>
  /\ last.ret = <<"a", "_", " ", "B">>

\* The card is selected by practice on every day, the dense view being
\* recomputed from the mapping.
DueEveryDay(m, card) ==
  LET B == toBucketSets(m).value
  IN  \A day \in Days : card \in practice(B, day)

\* C12: a card just answered Wrong, or answered Hard when it was in no
\* bucket, is selected by practice on every day, and a card that is selected
\* on every day stays so over every step that is not an update of that card
\* with Easy.
C12_FailedCardDueDaily ==
  [][\A card \in Cards :
       /\ (/\ last'.op = "update"
           /\ last'.card = card
           /\ \/ last'.difficulty = "Wrong"
              \/ last'.difficulty = "Hard" /\ BucketsOf(last'.buckets, card) = {})
          => DueEveryDay(buckets', card)
       /\ (/\ buckets' # buckets
           /\ ~(last'.op = "update" /\ last'.card = card /\ last'.difficulty = "Easy")
           /\ DueEveryDay(buckets, card))
          => DueEveryDay(buckets', card)]_vars

C12_Witness ==
  /\ last.op = "update"
  /\ last.difficulty = "Wrong"
  /\ BucketsOf(last.buckets, last.card) = {2}
  /\ DueEveryDay(buckets, last.card)
  /\ \E other \in Cards \ {last.card} :
       BucketsOf(buckets, other) = {2} /\ ~DueEveryDay(buckets, other)

\* The bucket a card is in, read as a number; 0 for a card in no bucket.
BucketOf(m, card) ==
  IF BucketsOf(m, card) = {} THEN 0 ELSE CHOOSE b \in BucketsOf(m, card) : TRUE

\* C13: starting from a mapping with card c in no bucket, after any non-empty
\* sequence of updates of c, interleaved with updates of other cards, c is in
\* the bucket whose number is the number of Easy outcomes given for c since
\* its most recent Wrong (all its Easy outcomes if it had no Wrong); each
\* update leaves c in a bucket that is not negative and at most one above the
\* one it was in; and computeProgress counts c in masteredCards exactly when
\* that number is at least 3.
C13_BucketCountsEasyRun ==
  /\ \A card \in Cards :
        easyRun[card] >= 0 => BucketsOf(buckets, card) = {easyRun[card]}
  /\ (last.op = "update" /\ easyRun[last.card] >= 0) =>
        /\ BucketOf(last.ret.value, last.card) >= 0
        /\ BucketOf(last.ret.value, last.card) <= BucketOf(last.buckets, last.card) + 1
  /\ (last.op = "computeProgress" /\ \A card \in Cards : easyRun[card] # Untracked) =>
        last.ret.value.masteredCards =
          Cardinality({card \in Cards : easyRun[card] >= 3})

C13_Witness ==
  /\ last.op = "computeProgress"
  /\ last.ret.value.masteredCards = 1
  /\ \E card \in Cards : easyRun[card] = 3
  /\ \E card \in Cards : easyRun[card] = 2

\* The length of the dense array of a mapping.
DenseLength(m) == ArrayLength(toBucketSets(m).value)

\* C14: update removes no bucket key, also when the bucket the card left
\* becomes empty, and adds at most one; so along any sequence of updates the
\* length of toBucketSets of the mapping never decreases.
C14_KeysKept ==
  [][/\ last'.op = "update" =>
          /\ MapKeys(last'.buckets) \subseteq MapKeys(last'.ret.value)
          /\ Cardinality(MapKeys(last'.ret.value) \ MapKeys(last'.buckets)) <= 1
          /\ DenseLength(last'.ret.value) >= DenseLength(last'.buckets)
     /\ buckets' # buckets =>
          /\ MapKeys(buckets) \subseteq MapKeys(buckets')
          /\ DenseLength(buckets') >= DenseLength(buckets)]_vars

\* The card left the highest bucket empty: its key stays, and the maxBucket
\* of getBucketRange is below length - 1.
C14_Witness ==
  /\ last.op = "update"
  /\ \E k \in MapKeys(buckets) :
        /\ k = MathMax(MapKeys(buckets))
        /\ BucketsOf(last.buckets, last.card) = {k}
        /\ MapGet(buckets, k) = {}
  /\ LET B == toBucketSets(buckets).value
     IN  /\ getBucketRange(B) # Undefined
         /\ getBucketRange(B).maxBucket < ArrayLength(B) - 1
====
